---- MODULE Spec2Model ----
(***************************************************************************)
(* State interpreters of ksurct.common.peripherals.xbox.                   *)
(*                                                                         *)
(* One interpreter object (an instance of one of the concrete subclasses   *)
(* of AbstractState) is modelled together with the operations a caller can *)
(* apply to it: process_event, clear, zero, value and the read-and-reset   *)
(* call (Spec, SpecSweep); SpecController models a Controller holding its  *)
(* eighteen interpreters.  An object is a record holding the attributes    *)
(* its __init__ creates, under the names Python gives them (a              *)
(* double-underscore attribute is stored under its mangled name,           *)
(* _Class__value).                                                         *)
(*                                                                         *)
(* Python values returned to the caller are tagged records:                *)
(*   [type |-> "NoneType"], [type |-> "bool", v |-> b],                    *)
(*   [type |-> "int", v |-> n], [type |-> "float", num |-> n, den |-> d]   *)
(*   (the quotient n / d of two ints, d # 0, kept as an exact fraction),   *)
(*   [type |-> "str", v |-> sequence of characters],                       *)
(*   [type |-> "tuple", v |-> set of members],                             *)
(*   [type |-> "raise", exc |-> name] for an exception that propagates.    *)
(*                                                                         *)
(* int / int in Python is the correctly rounded quotient.  Every           *)
(* comparison made on such a quotient here (with 0.04, 0.9, 0, 1) has the  *)
(* same outcome on the exact fraction: numerators and denominators are at  *)
(* most 65535 in magnitude, so a fraction that differs from 1/25 or 9/10   *)
(* differs by more than 1e-7, far above the rounding error of a double.    *)
(*                                                                         *)
(* xbox.py names HatEvent (line 172) and HatState (line 194), which it     *)
(* never defines; they are read as the DPadEvent and DPadState that the    *)
(* rest of the file defines.                                               *)
(***************************************************************************)
EXTENDS Integers, Sequences, FiniteSets

VARIABLES
    obj,    \* the instance operated on: its class and attributes
    ret,    \* what the most recent operation returned to the caller
    since,  \* history: signals of the events processed since the last clear
    last,   \* history: <<signal>> of the most recent event, <<>> if none
    zref,   \* history: <<argument>> of the most recent zero(), <<>> if none
    op,     \* history: the name of the most recent operation
    heap    \* the interpreters a Controller holds, by address; <<>> without one

vars == <<obj, ret, since, last, zref, op, heap>>

---------------------------------------------------------------------------
(* Bounds of the exploration.                                              *)

\* Events one Controller.update call finds pending.
MaxQueue == 2

\* Events processed between two clears, per class of event.
MaxButtonEvents == 4
MaxAxisEvents == 2
MaxHatEvents == 3

\* Timestamps an event may carry.
Times == {0, 1}

---------------------------------------------------------------------------
(* Python values.                                                          *)

None == [type |-> "NoneType"]
PyBool(b) == [type |-> "bool", v |-> b]
PyInt(n) == [type |-> "int", v |-> n]
PyFloat(n, d) == [type |-> "float", num |-> n, den |-> d]
PyStr(s) == [type |-> "str", v |-> s]
PyTuple(s) == [type |-> "tuple", v |-> s]
Raise(e) == [type |-> "raise", exc |-> e]

Abs(n) == IF n < 0 THEN -n ELSE n

\* int / int: ZeroDivisionError on a zero divisor, else the quotient.
TrueDiv(n, d) == IF d = 0 THEN Raise("ZeroDivisionError") ELSE PyFloat(n, d)

---------------------------------------------------------------------------
(* Events.                                                                 *)

ButtonEvent(time, state) == [time |-> time, state |-> state]
AxisEvent(time, state) == [time |-> time, state |-> state]
DPadEvent(time, state) == [time |-> time, state |-> state]

---------------------------------------------------------------------------
(* CurrentButtonState                                                      *)

CurrentButtonState_init == [cls |-> "CurrentButtonState", _value |-> FALSE]

CurrentButtonState_process_event(self, event) ==
    [self EXCEPT !._value = event.state]

CurrentButtonState_value(self) == PyBool(self._value)

\* Mutant of AbstractState_clear: the default clear resets a stored level.
AbstractState_clear_resets(self) ==
    IF "_value" \in DOMAIN self THEN [self EXCEPT !._value = FALSE] ELSE self

\* AbstractState.clear and AbstractState.zero: the inherited no-ops.
AbstractState_clear(self) == self

AbstractState_zero(self, value) == self

---------------------------------------------------------------------------
(* ToggleButtonState                                                       *)

ToggleButtonState_init == [cls |-> "ToggleButtonState", _value |-> FALSE]

\* Mutant of ToggleButtonState_process_event: flips on every edge.
ToggleButtonState_process_event_anyedge(self, event) ==
    [self EXCEPT !._value = ~self._value]

ToggleButtonState_process_event(self, event) ==
    [self EXCEPT !._value = (self._value # event.state)]

ToggleButtonState_value(self) == PyBool(self._value)

ToggleButtonState_clear(self) == [self EXCEPT !._value = FALSE]

---------------------------------------------------------------------------
(* ClickedButtonState                                                      *)

ClickedButtonState_init == [cls |-> "ClickedButtonState", _value |-> FALSE]

\* Mutant of ClickedButtonState_process_event: overwrites instead of OR.
ClickedButtonState_process_event_overwrite(self, event) ==
    [self EXCEPT !._value = event.state]

ClickedButtonState_process_event(self, event) ==
    [self EXCEPT !._value = (self._value \/ event.state)]

ClickedButtonState_value(self) == PyBool(self._value)

ClickedButtonState_clear(self) == [self EXCEPT !._value = FALSE]

---------------------------------------------------------------------------
(* DecimalAxisState                                                        *)

VAR_MAX == 32767
VAR_MIN == -32768

\* abs_tol=0.04 of the isclose call, as the fraction 4 / 100.
ABS_TOL_NUM == 4
ABS_TOL_DEN == 100

\* Mutant of isclose: the tolerance excludes its own edge.
isclose_strict(normal) ==
    ABS_TOL_DEN * Abs(normal.num) < ABS_TOL_NUM * Abs(normal.den)

\* math.isclose(normal, 0, abs_tol=0.04) for a float normal:
\* |normal| <= max(1e-9 * |normal|, 0.04), that is |normal| <= 0.04.
isclose(normal) ==
    ABS_TOL_DEN * Abs(normal.num) <= ABS_TOL_NUM * Abs(normal.den)

DecimalAxisState_init ==
    [cls |-> "DecimalAxisState", zero_value |-> 0,
     _DecimalAxisState__value |-> 0]

DecimalAxisState_process_event(self, event) ==
    [self EXCEPT !._DecimalAxisState__value = event.state]

\* Mutant of DecimalAxisState_value: the negative branch without its minus.
DecimalAxisState_value_unsigned(self) ==
    LET raw == self._DecimalAxisState__value
        normal == raw - self.zero_value
        quotient == IF raw > 0
                    THEN TrueDiv(normal, VAR_MAX - self.zero_value)
                    ELSE TrueDiv(normal, VAR_MIN - self.zero_value)
    IN  IF quotient.type = "raise" THEN quotient
        ELSE IF isclose(quotient) THEN PyInt(0)
        ELSE quotient

DecimalAxisState_value(self) ==
    LET raw == self._DecimalAxisState__value
        normal == raw - self.zero_value
        quotient == IF raw > 0
                    THEN TrueDiv(normal, VAR_MAX - self.zero_value)
                    ELSE TrueDiv(-normal, VAR_MIN - self.zero_value)
    IN  IF quotient.type = "raise" THEN quotient
        ELSE IF isclose(quotient) THEN PyInt(0)
        ELSE quotient

\* Mutant of DecimalAxisState_zero: the reading also becomes the stored sample.
DecimalAxisState_zero_stores(self, current) ==
    [self EXCEPT !.zero_value = current, !._DecimalAxisState__value = current]

DecimalAxisState_zero(self, current) == [self EXCEPT !.zero_value = current]

---------------------------------------------------------------------------
(* DecimalTriggerState                                                     *)

DecimalTriggerState_init ==
    [cls |-> "DecimalTriggerState", zero_value |-> 0,
     _DecimalTriggerState__value |-> 0]

DecimalTriggerState_process_event(self, event) ==
    [self EXCEPT !._DecimalTriggerState__value = event.state]

\* Mutant of DecimalTriggerState_value: the range taken as 0 .. VAR_MAX.
DecimalTriggerState_value_halfrange(self) ==
    TrueDiv(self._DecimalTriggerState__value, VAR_MAX)

DecimalTriggerState_value(self) ==
    TrueDiv(self._DecimalTriggerState__value - VAR_MIN, VAR_MAX - VAR_MIN)

---------------------------------------------------------------------------
(* PulledTriggerState                                                      *)

\* The threshold .9 of PulledTriggerState.process_event, as 9 / 10.
PULLED_NUM == 9
PULLED_DEN == 10

\* x > .9 for the float x = num / den with den > 0.
GreaterThanPulled(x) == PULLED_DEN * x.num > PULLED_NUM * x.den

PulledTriggerState_init ==
    [cls |-> "PulledTriggerState", zero_value |-> 0,
     _DecimalTriggerState__value |-> 0, _value |-> FALSE]

\* Mutant of PulledTriggerState_process_event: overwrites instead of OR.
PulledTriggerState_process_event_overwrite(self, event) ==
    LET stored == DecimalTriggerState_process_event(self, event)
    IN  [stored EXCEPT !._value =
            GreaterThanPulled(DecimalTriggerState_value(stored))]

PulledTriggerState_process_event(self, event) ==
    LET stored == DecimalTriggerState_process_event(self, event)
    IN  [stored EXCEPT !._value =
            (self._value \/ GreaterThanPulled(DecimalTriggerState_value(stored)))]

PulledTriggerState_value(self) == PyBool(self._value)

\* Mutant of PulledTriggerState_clear: the stored sample is reset as well.
PulledTriggerState_clear_all(self) ==
    [self EXCEPT !._value = FALSE, !._DecimalTriggerState__value = 0]

PulledTriggerState_clear(self) == [self EXCEPT !._value = FALSE]

---------------------------------------------------------------------------
(* DPadState                                                               *)

\* value & bit for bit a power of two.
BitAnd(value, bit) == IF (value \div bit) % 2 = 1 THEN bit ELSE 0

DPadState_init == [cls |-> "DPadState", _DPadState__value |-> 0]

DPadState_process_event(self, event) ==
    [self EXCEPT !._DPadState__value = event.state]

\* Mutant of DPadState_value: down tested before up, left before right.
DPadState_value_downfirst(self) ==
    LET value == self._DPadState__value
        result == IF BitAnd(value, 4) # 0 THEN <<"d">>
                  ELSE IF BitAnd(value, 1) # 0 THEN <<"u">>
                  ELSE <<" ">>
    IN  PyStr(IF BitAnd(value, 8) # 0 THEN result \o <<"l">>
              ELSE IF BitAnd(value, 2) # 0 THEN result \o <<"r">>
              ELSE result \o <<" ">>)

\* Strings are sequences of characters.
DPadState_value(self) ==
    LET value == self._DPadState__value
        result == IF BitAnd(value, 1) # 0 THEN <<"u">>
                  ELSE IF BitAnd(value, 4) # 0 THEN <<"d">>
                  ELSE <<" ">>
    IN  PyStr(IF BitAnd(value, 2) # 0 THEN result \o <<"r">>
              ELSE IF BitAnd(value, 8) # 0 THEN result \o <<"l">>
              ELSE result \o <<" ">>)

---------------------------------------------------------------------------
(* DPadSwitchesState                                                       *)

RECURSIVE lstrip(_)
lstrip(s) == IF s # <<>> /\ Head(s) = " " THEN lstrip(Tail(s)) ELSE s

RECURSIVE rstrip(_)
rstrip(s) ==
    IF s # <<>> /\ s[Len(s)] = " " THEN rstrip(SubSeq(s, 1, Len(s) - 1)) ELSE s

\* Mutant of strip: only trailing whitespace removed.
strip_trailing(s) == rstrip(s)

\* str.strip(): leading and trailing whitespace removed.
strip(s) == rstrip(lstrip(s))

DPadSwitchesState_init ==
    [cls |-> "DPadSwitchesState", _DPadState__value |-> 0,
     _DPadSwitchesState__value |-> {}]

\* Mutant of DPadSwitchesState_process_event: the string is added as
\* DPadState.value gives it, spaces included.
DPadSwitchesState_process_event_unstripped(self, event) ==
    LET stored == DPadState_process_event(self, event)
    IN  [stored EXCEPT !._DPadSwitchesState__value =
            self._DPadSwitchesState__value \cup {DPadState_value(stored).v}]

DPadSwitchesState_process_event(self, event) ==
    LET stored == DPadState_process_event(self, event)
    IN  [stored EXCEPT !._DPadSwitchesState__value =
            self._DPadSwitchesState__value \cup {strip(DPadState_value(stored).v)}]

DPadSwitchesState_value(self) == PyTuple(self._DPadSwitchesState__value)

DPadSwitchesState_clear(self) == [self EXCEPT !._DPadSwitchesState__value = {}]

---------------------------------------------------------------------------
(* Method resolution: the method each class binds.                         *)

Classes ==
    {"CurrentButtonState", "ToggleButtonState", "ClickedButtonState",
     "DecimalAxisState", "DecimalTriggerState", "PulledTriggerState",
     "DPadState", "DPadSwitchesState"}

ButtonClasses == {"CurrentButtonState", "ToggleButtonState", "ClickedButtonState"}
AxisClasses == {"DecimalAxisState", "DecimalTriggerState", "PulledTriggerState"}
DPadClasses == {"DPadState", "DPadSwitchesState"}

construct(cls) ==
    CASE cls = "CurrentButtonState" -> CurrentButtonState_init
      [] cls = "ToggleButtonState" -> ToggleButtonState_init
      [] cls = "ClickedButtonState" -> ClickedButtonState_init
      [] cls = "DecimalAxisState" -> DecimalAxisState_init
      [] cls = "DecimalTriggerState" -> DecimalTriggerState_init
      [] cls = "PulledTriggerState" -> PulledTriggerState_init
      [] cls = "DPadState" -> DPadState_init
      [] cls = "DPadSwitchesState" -> DPadSwitchesState_init

process_event(self, event) ==
    CASE self.cls = "CurrentButtonState" -> CurrentButtonState_process_event(self, event)
      [] self.cls = "ToggleButtonState" -> ToggleButtonState_process_event(self, event)
      [] self.cls = "ClickedButtonState" -> ClickedButtonState_process_event(self, event)
      [] self.cls = "DecimalAxisState" -> DecimalAxisState_process_event(self, event)
      [] self.cls = "DecimalTriggerState" -> DecimalTriggerState_process_event(self, event)
      [] self.cls = "PulledTriggerState" -> PulledTriggerState_process_event(self, event)
      [] self.cls = "DPadState" -> DPadState_process_event(self, event)
      [] self.cls = "DPadSwitchesState" -> DPadSwitchesState_process_event(self, event)

value(self) ==
    CASE self.cls = "CurrentButtonState" -> CurrentButtonState_value(self)
      [] self.cls = "ToggleButtonState" -> ToggleButtonState_value(self)
      [] self.cls = "ClickedButtonState" -> ClickedButtonState_value(self)
      [] self.cls = "DecimalAxisState" -> DecimalAxisState_value(self)
      [] self.cls = "DecimalTriggerState" -> DecimalTriggerState_value(self)
      [] self.cls = "PulledTriggerState" -> PulledTriggerState_value(self)
      [] self.cls = "DPadState" -> DPadState_value(self)
      [] self.cls = "DPadSwitchesState" -> DPadSwitchesState_value(self)

clear(self) ==
    CASE self.cls = "ToggleButtonState" -> ToggleButtonState_clear(self)
      [] self.cls = "ClickedButtonState" -> ClickedButtonState_clear(self)
      [] self.cls = "PulledTriggerState" -> PulledTriggerState_clear(self)
      [] self.cls = "DPadSwitchesState" -> DPadSwitchesState_clear(self)
      [] OTHER -> AbstractState_clear(self)

zero(self, current) ==
    CASE self.cls = "DecimalAxisState" -> DecimalAxisState_zero(self, current)
      [] OTHER -> AbstractState_zero(self, current)

---------------------------------------------------------------------------
(* Inputs: what Controller.update and Controller.zero hand to an           *)
(* interpreter of each class.                                              *)

\* Raw samples of a stick axis: the extremes, the centre, and the samples
\* around the dead-zone edge of the zero references 17 and 0.
StickSamples ==
    {VAR_MIN, VAR_MIN + 1, -32000, -1311, -1, 0, 1, 17, 1326, 1327, 1328,
     32000, VAR_MAX}

\* Raw samples of a trigger axis: the extremes, the middle, and the samples
\* around the pulled threshold.
TriggerSamples == {VAR_MIN, -1, 0, 26213, 26214, 26215, VAR_MAX}

\* Hat codes: every combination of the four direction bits.
HatCodes == 0 .. (1 + 2 + 4 + 8)

Signals(cls) ==
    IF cls \in ButtonClasses THEN BOOLEAN
    ELSE IF cls = "DecimalAxisState" THEN StickSamples
    ELSE IF cls \in AxisClasses THEN TriggerSamples
    ELSE HatCodes

\* jbutton / jaxis / jhat events as Controller.update wraps them.
Events(cls) ==
    IF cls \in ButtonClasses
    THEN {ButtonEvent(t, s) : t \in Times, s \in Signals(cls)}
    ELSE IF cls \in AxisClasses
    THEN {AxisEvent(t, s) : t \in Times, s \in Signals(cls)}
    ELSE {DPadEvent(t, s) : t \in Times, s \in Signals(cls)}

\* SDL_JoystickGetAxis readings handed to zero(); Controller.zero calls it
\* on the axis slots only, a direct call on another class passes 0 here.
ZeroSamples(cls) ==
    IF cls \in AxisClasses THEN Signals(cls) ELSE {0}

MaxEvents(cls) ==
    IF cls \in ButtonClasses THEN MaxButtonEvents
    ELSE IF cls \in AxisClasses THEN MaxAxisEvents
    ELSE MaxHatEvents

---------------------------------------------------------------------------
(* The state machine.                                                      *)

Init ==
    /\ \E cls \in Classes : obj = construct(cls)
    /\ ret = None
    /\ since = <<>>
    /\ last = <<>>
    /\ zref = <<>>
    /\ op = "__init__"
    /\ heap = <<>>

ProcessEvent ==
    /\ Len(since) < MaxEvents(obj.cls)
    /\ \E event \in Events(obj.cls) :
          /\ obj' = process_event(obj, event)
          /\ since' = Append(since, event.state)
          /\ last' = <<event.state>>
    /\ ret' = None
    /\ op' = "process_event"
    /\ UNCHANGED <<zref, heap>>

Clear ==
    /\ obj' = clear(obj)
    /\ since' = <<>>
    /\ ret' = None
    /\ op' = "clear"
    /\ UNCHANGED <<last, zref, heap>>

Zero ==
    /\ \E current \in ZeroSamples(obj.cls) :
          /\ obj' = zero(obj, current)
          /\ zref' = <<current>>
    /\ ret' = None
    /\ op' = "zero"
    /\ UNCHANGED <<since, last, heap>>

\* Mutant of Value: the read discharges the interpreter as the call does.
Value_discharges ==
    /\ ret' = value(obj)
    /\ obj' = clear(obj)
    /\ op' = "value"
    /\ UNCHANGED <<since, last, zref, heap>>

Value ==
    /\ ret' = value(obj)
    /\ op' = "value"
    /\ UNCHANGED <<obj, since, last, zref, heap>>

\* Mutant of Call: clear() runs before value() is read.
Call_clears_first ==
    /\ ret' = value(clear(obj))
    /\ obj' = clear(obj)
    /\ since' = <<>>
    /\ op' = "__call__"
    /\ UNCHANGED <<last, zref, heap>>

\* AbstractState.__call__: value(), then clear(), unless value() raised.
Call ==
    LET result == value(obj)
    IN  /\ ret' = result
        /\ IF result.type = "raise"
           THEN UNCHANGED <<obj, since>>
           ELSE obj' = clear(obj) /\ since' = <<>>
        /\ op' = "__call__"
        /\ UNCHANGED <<last, zref, heap>>

Next == ProcessEvent \/ Clear \/ Zero \/ Value \/ Call

Spec == Init /\ [][Next]_vars

---------------------------------------------------------------------------
(* A DPadSwitchesState under pad sweeps of any length.  The history since  *)
(* keeps each code processed since the last clear once, in ascending       *)
(* order, so that it stays finite however many events arrive.              *)

\* The codes of the nine pad positions, and two with opposite bits set.
SweepCodes == {0, 1, 2, 3, 4, 6, 8, 9, 12, 5, 15}

\* seq, ascending and without repeats, with c added.
SortedInsert(seq, c) ==
    IF c \in {seq[i] : i \in 1 .. Len(seq)} THEN seq
    ELSE LET below == SelectSeq(seq, LAMBDA x : x < c)
             above == SelectSeq(seq, LAMBDA x : x > c)
         IN  below \o <<c>> \o above

InitSweep == Init /\ obj.cls = "DPadSwitchesState"

Sweep ==
    /\ \E t \in Times, code \in SweepCodes :
          /\ obj' = process_event(obj, DPadEvent(t, code))
          /\ since' = SortedInsert(since, code)
          /\ last' = <<code>>
    /\ ret' = None
    /\ op' = "process_event"
    /\ UNCHANGED <<zref, heap>>

NextSweep == Sweep \/ Clear \/ Zero \/ Value \/ Call

SpecSweep == InitSweep /\ [][NextSweep]_vars

---------------------------------------------------------------------------
(* Controller: eighteen interpreters, each constructed by its own call, so *)
(* each at an address of its own on the heap; the Controller's attributes  *)
(* hold the addresses.  The joystick and haptic handles are the platform's *)
(* and are left out.                                                       *)

\* Mutant of Controller_new: self.a = self.b = CurrentButtonState().
Controller_new_shared(number) ==
    [cls |-> "Controller", number |-> number,
     a |-> 1, b |-> 1, x |-> 3, y |-> 4,
     left_bumper |-> 5, right_bumper |-> 6,
     start_button |-> 7, select_button |-> 8, center_button |-> 9,
     left_stick_button |-> 10, right_stick_button |-> 11,
     left_x |-> 12, left_y |-> 13, left_trigger |-> 14,
     right_x |-> 15, right_y |-> 16, right_trigger |-> 17,
     dpad |-> 18]

\* The attributes Controller.__init__ assigns, in the order it assigns them.
Controller_new(number) ==
    [cls |-> "Controller", number |-> number,
     a |-> 1, b |-> 2, x |-> 3, y |-> 4,
     left_bumper |-> 5, right_bumper |-> 6,
     start_button |-> 7, select_button |-> 8, center_button |-> 9,
     left_stick_button |-> 10, right_stick_button |-> 11,
     left_x |-> 12, left_y |-> 13, left_trigger |-> 14,
     right_x |-> 15, right_y |-> 16, right_trigger |-> 17,
     dpad |-> 18]

\* The objects those constructor calls create.
Controller_new_heap ==
    <<CurrentButtonState_init, CurrentButtonState_init,
      CurrentButtonState_init, CurrentButtonState_init,
      CurrentButtonState_init, CurrentButtonState_init,
      CurrentButtonState_init, CurrentButtonState_init,
      CurrentButtonState_init, CurrentButtonState_init,
      CurrentButtonState_init,
      DecimalAxisState_init, DecimalAxisState_init, PulledTriggerState_init,
      DecimalAxisState_init, DecimalAxisState_init, PulledTriggerState_init,
      DPadSwitchesState_init>>

Controller__axises(self) ==
    <<self.left_x, self.left_y, self.left_trigger,
      self.right_x, self.right_y, self.right_trigger>>

Controller_button_array(self) ==
    <<self.a, self.b, self.x, self.y,
      self.left_bumper, self.right_bumper,
      self.start_button, self.select_button, self.center_button,
      self.left_stick_button, self.right_stick_button>>

\* Controller.zero from axis i on (i counts from 0, as enumerate does);
\* readings[i + 1] is SDL_JoystickGetAxis(self.device, i).
RECURSIVE Controller_zero_from(_, _, _, _)
Controller_zero_from(self, h, readings, i) ==
    LET axises == Controller__axises(self)
    IN  IF i >= Len(axises) THEN h
        ELSE Controller_zero_from(
                 self,
                 [h EXCEPT ![axises[i + 1]] = zero(@, readings[i + 1])],
                 readings, i + 1)

Controller_zero(self, h, readings) == Controller_zero_from(self, h, readings, 0)

\* An SDL event as Controller.update reads it: its type, the jbutton.button
\* or jaxis.axis index, the jaxis.value or jhat.value, and its timestamp.
SdlEvent(type, index, val) ==
    [type |-> type, index |-> index, value |-> val, timestamp |-> 0]

\* The body of the loop of Controller.update for one event.
Controller_update_one(self, h, event) ==
    LET button_array == Controller_button_array(self)
        axis_array == Controller__axises(self)
    IN  CASE event.type = "SDL_JOYBUTTONUP" ->
               [h EXCEPT ![button_array[event.index + 1]] =
                   process_event(@, ButtonEvent(event.timestamp, FALSE))]
          [] event.type = "SDL_JOYBUTTONDOWN" ->
               [h EXCEPT ![button_array[event.index + 1]] =
                   process_event(@, ButtonEvent(event.timestamp, TRUE))]
          [] event.type = "SDL_JOYAXISMOTION" ->
               [h EXCEPT ![axis_array[event.index + 1]] =
                   process_event(@, AxisEvent(event.timestamp, event.value))]
          [] event.type = "SDL_JOYHATMOTION" ->
               [h EXCEPT ![self.dpad] =
                   process_event(@, DPadEvent(event.timestamp, event.value))]
          [] OTHER -> h

\* Controller.update over the events sdl2.ext.get_events() returns.
RECURSIVE Controller_update(_, _, _)
Controller_update(self, h, events) ==
    IF events = <<>> THEN h
    ELSE Controller_update(self, Controller_update_one(self, h, Head(events)),
                           Tail(events))

\* The events a poll may find: a press and a release of the first button,
\* a press of the last one, a sample of the left trigger, a pad code, and
\* an event of a type update ignores.
SdlEvents ==
    {SdlEvent("SDL_JOYBUTTONDOWN", 0, 0), SdlEvent("SDL_JOYBUTTONUP", 0, 0),
     SdlEvent("SDL_JOYBUTTONDOWN", 10, 0),
     SdlEvent("SDL_JOYAXISMOTION", 2, 26214),
     SdlEvent("SDL_JOYHATMOTION", 0, 3),
     SdlEvent("SDL_JOYDEVICEADDED", 0, 0)}

Queues == UNION {[1 .. n -> SdlEvents] : n \in 0 .. MaxQueue}

\* SDL_JoystickGetAxis readings of the six axes at calibration: sticks at
\* or near the centre, triggers released.
ZeroReadings ==
    {<<0, 0, VAR_MIN, 0, 0, VAR_MIN>>, <<17, -1, VAR_MIN, 1327, 0, VAR_MIN>>}

SlotNames ==
    {"a", "b", "x", "y", "left_bumper", "right_bumper", "start_button",
     "select_button", "center_button", "left_stick_button",
     "right_stick_button", "left_x", "left_y", "left_trigger", "right_x",
     "right_y", "right_trigger", "dpad"}

\* Controller(0): the constructor calls, then self.zero().
InitController ==
    /\ obj = Controller_new(0)
    /\ \E readings \in ZeroReadings :
          heap = Controller_zero(obj, Controller_new_heap, readings)
    /\ ret = None
    /\ since = <<>>
    /\ last = <<>>
    /\ zref = <<>>
    /\ op = "__init__"

ControllerUpdate ==
    /\ \E events \in Queues : heap' = Controller_update(obj, heap, events)
    /\ ret' = None
    /\ op' = "update"
    /\ UNCHANGED <<obj, since, last, zref>>

ControllerZero ==
    /\ \E readings \in ZeroReadings : heap' = Controller_zero(obj, heap, readings)
    /\ ret' = None
    /\ op' = "zero"
    /\ UNCHANGED <<obj, since, last, zref>>

\* controller.<name>(): read-and-reset of one interpreter.
ControllerRead ==
    \E name \in SlotNames :
        LET result == value(heap[obj[name]])
        IN  /\ ret' = result
            /\ heap' = IF result.type = "raise" THEN heap
                       ELSE [heap EXCEPT ![obj[name]] = clear(@)]
            /\ op' = "__call__"
            /\ UNCHANGED <<obj, since, last, zref>>

NextController == ControllerUpdate \/ ControllerZero \/ ControllerRead

SpecController == InitController /\ [][NextController]_vars

---------------------------------------------------------------------------
(* Helpers of the properties.                                              *)

Range(seq) == {seq[i] : i \in 1 .. Len(seq)}

\* Number of pressed=true signals in a sequence of button signals.
RECURSIVE CountTrue(_)
CountTrue(seq) ==
    IF seq = <<>> THEN 0
    ELSE (IF Head(seq) THEN 1 ELSE 0) + CountTrue(Tail(seq))

\* The most recent event's signal, or the signal __init__ stores.
LastSignal(initial) == IF last = <<>> THEN initial ELSE last[1]

\* The zero reference in force: the last zero() argument, or __init__'s 0.
ZeroRef == IF zref = <<>> THEN 0 ELSE zref[1]

\* This step is process_event of an event with signal s.
Processed(s) == since' = Append(since, s)

\* v is a number equal to the fraction n / d (d > 0).
NumberIs(v, n, d) ==
    \/ v.type = "int" /\ v.v * d = n
    \/ v.type = "float" /\ v.den # 0 /\ v.num * d = n * v.den

\* Bit k of a hat code.
Bit(c, k) == (c \div (2 ^ k)) % 2 = 1

\* Sign of an integer, and of the number a value() result holds.
Sgn(n) == IF n > 0 THEN 1 ELSE IF n < 0 THEN -1 ELSE 0
SignOf(v) == IF v.type = "int" THEN Sgn(v.v) ELSE Sgn(v.num) * Sgn(v.den)

\* The direction string of a hat code with its spaces removed.
Trimmed(c) ==
    (IF Bit(c, 0) THEN <<"u">> ELSE IF Bit(c, 2) THEN <<"d">> ELSE <<>>)
    \o (IF Bit(c, 1) THEN <<"r">> ELSE IF Bit(c, 3) THEN <<"l">> ELSE <<>>)


---------------------------------------------------------------------------
(* C1. ToggleButtonState: value() is true exactly when the number of       *)
(* pressed=true events processed since the last clear (or construction)    *)
(* is odd.  Hence a pressed=false event leaves the value alone and clear() *)
(* forces it to false and restarts the count.                              *)
C1_ToggleParity ==
    obj.cls = "ToggleButtonState" =>
        value(obj) = PyBool(CountTrue(since) % 2 = 1)

\* Three presses and a release since a clear that followed earlier events.
C1_Witness ==
    /\ obj.cls = "ToggleButtonState"
    /\ Len(since) = 4
    /\ CountTrue(since) = 3
    /\ since[4] = FALSE
    /\ value(obj) = PyBool(TRUE)

(* C2. ClickedButtonState: value() is true exactly when some pressed=true  *)
(* event was processed since the last clear (or construction); releases    *)
(* after it do not reset it, clear() does.                                 *)
C2_ClickedLatch ==
    obj.cls = "ClickedButtonState" =>
        value(obj) = PyBool(TRUE \in Range(since))

\* A press followed by two releases: still true.
C2_Witness ==
    /\ obj.cls = "ClickedButtonState"
    /\ since = <<TRUE, FALSE, FALSE>>
    /\ value(obj) = PyBool(TRUE)

(* C3. PulledTriggerState: value() is false after construction, and is     *)
(* true exactly when some sample processed since the last clear (or        *)
(* construction) had (raw - MIN) / (MAX - MIN) > 0.9, that is              *)
(* 10 * (raw + 32768) > 9 * 65535; lower samples after it do not reset it. *)
C3_PulledLatch ==
    obj.cls = "PulledTriggerState" =>
        value(obj) =
            PyBool(\E i \in 1 .. Len(since) :
                      10 * (since[i] + 32768) > 9 * 65535)

\* The first sample past the threshold, then the last one below it.
C3_Witness ==
    /\ obj.cls = "PulledTriggerState"
    /\ since = <<26214, 26213>>
    /\ value(obj) = PyBool(TRUE)

(* C4. CurrentButtonState: value() is the signal of the most recently      *)
(* processed event, false if there was none, wherever clear() was called.  *)
C4_CurrentLevel ==
    obj.cls = "CurrentButtonState" =>
        value(obj) = PyBool(LastSignal(FALSE))

\* A press, then a clear: the level is still reported.
C4_Witness ==
    /\ obj.cls = "CurrentButtonState"
    /\ last = <<TRUE>>
    /\ since = <<>>
    /\ value(obj) = PyBool(TRUE)

(* C5. DecimalAxisState saturation: for every zero reference z in          *)
(* [MIN, MAX], after zero(z), processing raw=MAX makes value() equal 1.0   *)
(* and processing raw=MIN makes value() equal -1.0.                        *)
C5_AxisSaturation ==
    [][(obj.cls = "DecimalAxisState" /\ zref # <<>>) =>
          /\ Processed(VAR_MAX) => NumberIs(value(obj'), 1, 1)
          /\ Processed(VAR_MIN) => NumberIs(value(obj'), -1, 1)]_vars

(* C6. DecimalAxisState centre: for every zero reference z in [MIN, MAX],  *)
(* after zero(z) and process_event(raw=z), value() is 0.                   *)
C6_AxisCentre ==
    [][(obj.cls = "DecimalAxisState" /\ zref # <<>> /\ Processed(zref[1])) =>
          NumberIs(value(obj'), 0, 1)]_vars

(* C7. DecimalAxisState range: for every zero reference and every last     *)
(* raw sample within [MIN, MAX], the number value() returns has magnitude  *)
(* at most 1.                                                              *)
C7_AxisRange ==
    (obj.cls = "DecimalAxisState" /\ last # <<>>) =>
        LET v == value(obj)
        IN  v.type = "float" => Abs(v.num) <= Abs(v.den)

C9_TriggerLinear ==
    obj.cls = "DecimalTriggerState" =>
        LET r == LastSignal(0)
            v == value(obj)
        IN  /\ v = PyFloat(r + 32768, 65535)
            /\ r = -32768 => NumberIs(v, 0, 1)
            /\ r = 32767 => NumberIs(v, 1, 1)
            /\ 0 <= v.num /\ v.num <= v.den
            /\ \A r2 \in TriggerSamples :
                  LET v2 == value(process_event(obj, AxisEvent(0, r2)))
                  IN  r2 <= r => v2.den = v.den /\ v2.num <= v.num

\* Full pull after a calibration call.
C9_Witness ==
    /\ obj.cls = "DecimalTriggerState"
    /\ zref # <<>>
    /\ last = <<32767>>
    /\ NumberIs(value(obj), 1, 1)

(* C10. DPadState: for the most recently processed code c in 0..15,        *)
(* value() is two characters: 'u' if bit 0 is set, else 'd' if bit 2 is    *)
(* set, else a space; then 'r' if bit 1 is set, else 'l' if bit 3 is set,  *)
(* else a space.  0 -> "  ", 1 -> "u ", 3 -> "ur", 12 -> "dl".             *)
C10_DPadDecode ==
    obj.cls = "DPadState" =>
        LET c == LastSignal(0)
            v == value(obj)
            first == IF Bit(c, 0) THEN "u" ELSE IF Bit(c, 2) THEN "d" ELSE " "
            second == IF Bit(c, 1) THEN "r" ELSE IF Bit(c, 3) THEN "l" ELSE " "
        IN  /\ v = PyStr(<<first, second>>)
            /\ c = 0 => v.v = <<" ", " ">>
            /\ c = 1 => v.v = <<"u", " ">>
            /\ c = 3 => v.v = <<"u", "r">>
            /\ c = 12 => v.v = <<"d", "l">>

\* All four bits set: up wins over down, right over left.
C10_Witness ==
    /\ obj.cls = "DPadState"
    /\ last = <<15>>
    /\ value(obj) = PyStr(<<"u", "r">>)

(* C11. DPadSwitchesState: value() holds exactly the distinct trimmed      *)
(* direction strings of the pad codes processed since the last clear (or   *)
(* construction), each once; clear() empties it.  Up, up-right, right      *)
(* gives {"u", "ur", "r"}.                                                 *)
C11_SwitchesAccumulate ==
    obj.cls = "DPadSwitchesState" =>
        /\ value(obj) = PyTuple({Trimmed(c) : c \in Range(since)})
        /\ since = <<1, 3, 2>> =>
              value(obj).v = {<<"u">>, <<"u", "r">>, <<"r">>}
        /\ since = <<>> => value(obj).v = {}

\* Up, up-right, right.
C11_Witness ==
    /\ obj.cls = "DPadSwitchesState"
    /\ since = <<1, 3, 2>>
    /\ Cardinality(value(obj).v) = 3

(* C12. value() leaves all of the interpreter's memory unchanged: the      *)
(* object after a value() call is the object before it, a second value()   *)
(* right after the first returns the same result, and what value() returns *)
(* is what it would return again.                                          *)
C12_ValueIsPure ==
    [][op' = "value" =>
          /\ obj' = obj
          /\ ret' = value(obj')
          /\ op = "value" => ret' = ret]_vars

\* A read of a latched trigger that leaves the latch set.
C12_Witness ==
    /\ op = "value"
    /\ obj.cls = "PulledTriggerState"
    /\ ret = PyBool(TRUE)
    /\ value(obj) = PyBool(TRUE)

(* C13. Read-and-reset is value() followed by clear(): it returns what     *)
(* value() would have returned before the reset (for the directional set,  *)
(* the members present before emptying) and leaves the interpreter as      *)
(* clear() alone would; for the classes that inherit clear() it changes    *)
(* nothing.                                                                *)
C13_CallIsValueThenClear ==
    [][op' = "__call__" =>
          /\ ret' = value(obj)
          /\ obj' = clear(obj)
          /\ obj.cls \in {"CurrentButtonState", "DecimalAxisState",
                          "DecimalTriggerState", "DPadState"} => obj' = obj
          /\ obj.cls = "DPadSwitchesState" =>
                /\ ret'.v = obj._DPadSwitchesState__value
                /\ obj'._DPadSwitchesState__value = {}]_vars

\* A read-and-reset that returned two directions and left the set empty.
C13_Witness ==
    /\ op = "__call__"
    /\ obj.cls = "DPadSwitchesState"
    /\ ret = PyTuple({<<"u">>, <<"u", "r">>})
    /\ value(obj) = PyTuple({})

(* C14. DPadSwitchesState size: for any sequence of pad codes and clears   *)
(* the accumulated set holds at most 9 members (the centred value, the 4   *)
(* cardinals and the 4 diagonals).                                         *)
C14_SwitchesAtMostNine ==
    obj.cls = "DPadSwitchesState" =>
        /\ Cardinality(obj._DPadSwitchesState__value) <= 9
        /\ obj._DPadSwitchesState__value \subseteq
              {<<>>, <<"u">>, <<"d">>, <<"r">>, <<"l">>,
               <<"u", "r">>, <<"u", "l">>, <<"d", "r">>, <<"d", "l">>}

\* Every code was processed since the last clear: the set is full.
C14_Witness ==
    /\ obj.cls = "DPadSwitchesState"
    /\ Len(since) = Cardinality(SweepCodes)
    /\ Cardinality(obj._DPadSwitchesState__value) = 9

(* C15. clear() changes only sticky memory: on PulledTriggerState the      *)
(* latch is reset and the stored sample kept, on DPadSwitchesState the set *)
(* is emptied and the stored code kept, and on CurrentButtonState,         *)
(* DecimalAxisState, DecimalTriggerState and DPadState nothing changes.    *)
C15_ClearFrame ==
    [][op' = "clear" =>
          /\ obj.cls = "PulledTriggerState" =>
                obj' = [obj EXCEPT !._value = FALSE]
          /\ obj.cls = "DPadSwitchesState" =>
                obj' = [obj EXCEPT !._DPadSwitchesState__value = {}]
          /\ obj.cls \in {"CurrentButtonState", "DecimalAxisState",
                          "DecimalTriggerState", "DPadState"} =>
                obj' = obj /\ value(obj') = value(obj)]_vars

\* A cleared latch over a sample that had set it.
C15_Witness ==
    /\ op = "clear"
    /\ obj.cls = "PulledTriggerState"
    /\ obj._DecimalTriggerState__value = 26214
    /\ value(obj) = PyBool(FALSE)

(* C16. zero(ref) on DecimalAxisState replaces the zero reference and      *)
(* keeps the stored sample (the last one processed); on every other class, *)
(* the trigger classes included, zero(ref) changes nothing.                *)
C16_ZeroFrame ==
    [][op' = "zero" =>
          IF obj.cls = "DecimalAxisState"
          THEN /\ obj' = [obj EXCEPT !.zero_value = zref'[1]]
               /\ obj'._DecimalAxisState__value = LastSignal(0)
          ELSE obj' = obj]_vars

\* A recalibration after a sample: the sample is kept.
C16_Witness ==
    /\ op = "zero"
    /\ obj.cls = "DecimalAxisState"
    /\ last = <<1327>>
    /\ zref = <<17>>
    /\ obj._DecimalAxisState__value = 1327
    /\ obj.zero_value = 17

(* C18. DecimalAxisState.value() is total on the hardware range: for every *)
(* zero reference and last raw sample within [MIN, MAX] it returns a       *)
(* number and never fails.                                                 *)
C18_AxisTotal ==
    obj.cls = "DecimalAxisState" => value(obj).type \in {"int", "float"}

(* C19. DecimalAxisState at rest after calibration: after construction and *)
(* zero(z), before any sample is processed, value() is 0.                  *)
C19_AxisRestIsZero ==
    (obj.cls = "DecimalAxisState" /\ zref # <<>> /\ last = <<>>) =>
        NumberIs(value(obj), 0, 1)

(* C20. DecimalAxisState sign: for a zero reference z strictly inside      *)
(* (MIN, MAX) and any last raw sample r, value() is a number that is       *)
(* >= 0 when r >= z and <= 0 when r <= z.                                  *)
C20_AxisSign ==
    (obj.cls = "DecimalAxisState" /\ -32768 < ZeroRef /\ ZeroRef < 32767) =>
        LET r == LastSignal(0)
            v == value(obj)
        IN  /\ v.type \in {"int", "float"}
            /\ r >= ZeroRef => SignOf(v) >= 0
            /\ r <= ZeroRef => SignOf(v) <= 0

\* A sample between 0 and the zero reference: negative, as the deviation.
C20_Witness ==
    /\ obj.cls = "DecimalAxisState"
    /\ zref = <<32000>>
    /\ last = <<1>>
    /\ SignOf(value(obj)) = -1

---------------------------------------------------------------------------
(* C17. Interpreter independence.                                          *)

\* The input each index stands for, and the interpreter event update makes
\* of an SDL event.
ButtonSlots ==
    <<"a", "b", "x", "y", "left_bumper", "right_bumper", "start_button",
      "select_button", "center_button", "left_stick_button",
      "right_stick_button">>
AxisSlots ==
    <<"left_x", "left_y", "left_trigger", "right_x", "right_y", "right_trigger">>

SlotOf(e) ==
    CASE e.type \in {"SDL_JOYBUTTONUP", "SDL_JOYBUTTONDOWN"} ->
           {ButtonSlots[e.index + 1]}
      [] e.type = "SDL_JOYAXISMOTION" -> {AxisSlots[e.index + 1]}
      [] e.type = "SDL_JOYHATMOTION" -> {"dpad"}
      [] OTHER -> {}

SignalOf(e) ==
    CASE e.type = "SDL_JOYBUTTONUP" -> FALSE
      [] e.type = "SDL_JOYBUTTONDOWN" -> TRUE
      [] OTHER -> e.value

\* Interpreter o after the events of q routed to input name, in q's order.
RECURSIVE FoldSlot(_, _, _)
FoldSlot(o, q, name) ==
    IF q = <<>> THEN o
    ELSE FoldSlot(IF name \in SlotOf(Head(q))
                  THEN process_event(o, [time |-> Head(q).timestamp,
                                         state |-> SignalOf(Head(q))])
                  ELSE o,
                  Tail(q), name)

\* The results of applying one operation to interpreter o.
OneOperation(o) ==
    {clear(o)}
    \cup {zero(o, z) : z \in ZeroSamples(o.cls)}
    \cup {process_event(o, e) : e \in Events(o.cls)}

(* C17. With the interpreters one Controller holds, a process_event,       *)
(* clear, zero or read-and-reset applied to one of them leaves value() of  *)
(* every other one unchanged; and an update leaves each interpreter as the *)
(* events routed to its own index, applied in delivery order, leave it.    *)
C17_Independent ==
    /\ \A name \in SlotNames :
          \A after \in OneOperation(heap[obj[name]]) :
              LET h == [heap EXCEPT ![obj[name]] = after]
              IN  \A other \in SlotNames \ {name} :
                      value(h[obj[other]]) = value(heap[obj[other]])
    /\ \A events \in Queues :
          LET h == Controller_update(obj, heap, events)
          IN  \A name \in SlotNames :
                  h[obj[name]] = FoldSlot(heap[obj[name]], events, name)

\* After updates: a and the last button pressed, b not, the left trigger
\* latched, the right one not, up-right seen on the pad.
C17_Witness ==
    /\ op = "update"
    /\ value(heap[obj.a]) = PyBool(TRUE)
    /\ value(heap[obj.b]) = PyBool(FALSE)
    /\ value(heap[obj.right_stick_button]) = PyBool(TRUE)
    /\ value(heap[obj.left_trigger]) = PyBool(TRUE)
    /\ value(heap[obj.right_trigger]) = PyBool(FALSE)
    /\ <<"u", "r">> \in value(heap[obj.dpad]).v

====
